---- MODULE Spec2Model ----
(***************************************************************************)
(* Model of the bulk dispatch engine of src/bot.py: send_mass_dm, the      *)
(* global stop_flags registry, MessageModal.on_submit (which starts a      *)
(* dispatch as a background task) and MainMenuView.stop_button.            *)
(*                                                                         *)
(* The bot runs on one asyncio event loop: the code between two awaits of  *)
(* a task runs atomically, and other tasks and button callbacks run only   *)
(* while a task is suspended in an await.  Each action below is therefore  *)
(* the resumption of one task from the await named by its pc, together     *)
(* with everything the task does up to its next await.                     *)
(***************************************************************************)
EXTENDS Integers, Sequences, FiniteSets, TLC

\* ------------------------------------------------------------------ bounds
NumTasks == 2        \* background dispatch tasks that can be started
NumUsers == 2        \* distinct interaction.user.id values
LoopMembers == 5     \* largest guild of the single-dispatch specification
SessMembers == 3     \* guild size of the concurrent-sessions specification
SessFaults == 1      \* failing answers explored by the concurrent-sessions one
MaxGuild == 3        \* largest guild of the recipient-resolution specification

\* ------------------------------------------------------- program constants
LOG_EVERY == 3       \* (i + 1) % 3 == 0 : per-recipient log line
EDIT_EVERY == 5      \* (i + 1) % 5 == 0 : progress embed edit

Tasks == 1..NumTasks
Users == 1..NumUsers
Roles == {1, 2}
Modes == {"all", "roles"}
NoChannel == 0       \* dm_channel not yet bound in this task

\* Answers of the platform to create_dm() / dm_channel.send():
\*   forbidden    discord.Forbidden
\*   rate_limited discord.HTTPException with status 429
\*   http_error   discord.HTTPException with another status
\*   error        any other exception
Resp == {"ok", "forbidden", "rate_limited", "http_error", "error"}
\* Answers to a post or an edit on a progress sink.
SinkResp == {"ok", "fail"}

VARIABLES
    stop_flags,   \* the global dict stop_flags: session_id -> bool
    guild,        \* guild.members: sequence of [bot, roles]
    guild_found,  \* bot.get_guild(int(GUILD_ID)) is not None
    log_channel,  \* LOG_CHANNEL_ID is set and bot.get_channel finds it
    slots,        \* the tasks the environment may start
    faults_left,  \* failing answers the environment may still give (< 0: any)
    stopping,     \* history: the tasks that were live when their user pressed stop
    task          \* per task: the locals of send_mass_dm and its position

vars ==
    <<stop_flags, guild, guild_found, log_channel, slots, faults_left, stopping,
      task>>

\* ------------------------------------------------------------ dict helpers
EmptyDict == [k \in {} |-> FALSE]

\* d[k] = v
DictSet(d, k, v) == [x \in (DOMAIN d) \cup {k} |-> IF x = k THEN v ELSE d[x]]

\* Mutant of DictPop: stop_flags.clear() in place of popping one key.
DictClear(d, k) == [x \in {} |-> FALSE]

\* d.pop(k, None)
DictPop(d, k) == [x \in (DOMAIN d) \ {k} |-> d[x]]

\* d.get(k, False)
DictGet(d, k) == IF k \in DOMAIN d THEN d[k] ELSE FALSE

\* -------------------------------------------------------- recipient lists
RECURSIVE FilterIdx(_, _, _)
\* [k for k in idx if Keep(k)], order preserved; keep is the set of kept ids
FilterIdx(idx, keep, acc) ==
    IF idx = <<>> THEN acc
    ELSE FilterIdx(Tail(idx), keep,
                   IF Head(idx) \in keep THEN Append(acc, Head(idx)) ELSE acc)

\* Mutant of ResolveMembers: all(...) in place of any(...) at line 83.
ResolveMembersAllRoles(g, mode, role_ids) ==
    LET all == [k \in 1..Len(g) |-> k]
        humans == FilterIdx(all, {k \in 1..Len(g) : ~g[k].bot}, <<>>)
    IN  IF mode = "roles" /\ role_ids # {}
        THEN FilterIdx(humans,
                       {k \in 1..Len(g) : role_ids \subseteq g[k].roles}, <<>>)
        ELSE humans

\* members of send_mass_dm, as indices into guild.members
ResolveMembers(g, mode, role_ids) ==
    LET all == [k \in 1..Len(g) |-> k]
        humans == FilterIdx(all, {k \in 1..Len(g) : ~g[k].bot}, <<>>)
    IN  IF mode = "roles" /\ role_ids # {}
        THEN FilterIdx(humans,
                       {k \in 1..Len(g) : g[k].roles \cap role_ids # {}}, <<>>)
        ELSE humans

\* A guild with n human members and one automated account (member 2, or the
\* only member of an otherwise empty guild).  Member 1 holds role 1, the
\* automated account holds roles 1 and 2, the others hold no role.
MakeGuild(n) ==
    [k \in 1..(n + 1) |->
        [bot |-> (k = IF n = 0 THEN 1 ELSE 2),
         roles |-> IF k = 1 THEN {1} ELSE IF k = 2 THEN {1, 2} ELSE {}]]

\* ------------------------------------------------------------- task state
IdleTask ==
    [pc |-> "idle", session_id |-> 0, mode |-> "all", role_ids |-> {},
     members |-> <<>>, total |-> 0, i |-> 0,
     sent |-> 0, failed |-> 0, dm_closed |-> 0,
     dm_channel |-> NoChannel, was_stopped |-> FALSE,
     \* history (not program state)
     registered |-> FALSE,   \* line 75 has run
     observed |-> FALSE,     \* the loop has read the flag as set
     retries |-> 0,          \* retries issued for the current recipient
     hSent |-> 0, hClosed |-> 0,   \* outcomes as the platform's answers give them
     crashed_in |-> "none",  \* the await an escaping exception came from
     rl_call |-> "none",     \* the call whose 429 answer awaits its retry
     delays |-> 0,           \* sleeps of line 160 taken so far
     cmd_edits |-> 0,        \* in-progress edits of cmd_progress_msg issued
     log_edits |-> 0,        \* in-progress edits of progress_msg issued
     finals |-> <<>>]        \* final progress snapshots emitted

\* make_progress_embed arguments (the rendering is a front-end concern)
Snapshot(r, status) ==
    [sent |-> r.sent, failed |-> r.failed, dm_closed |-> r.dm_closed,
     total |-> r.total, status |-> status]

\* ------------------------------------------------- control flow of the loop
\* sent += 1 (lines 117, 132)
CountSent(r) == [r EXCEPT !.sent = @ + 1]

\* dm_closed += 1 (line 120)
CountDmClosed(r) == [r EXCEPT !.dm_closed = @ + 1]

\* failed += 1 (lines 135, 138, 141)
CountFailed(r) == [r EXCEPT !.failed = @ + 1]

\* Mutant of ExitLoop: the registry entry is popped before line 163 reads it,
\* so the status is always "complete".
ExitLoopAfterPop(r, flags) ==
    [r EXCEPT !.pc = "final_edit",
              !.was_stopped = FALSE,
              !.finals = Append(@, Snapshot(r, "complete"))]

\* Lines 163-171: was_stopped is read and the final embed is built and sent
\* to the sinks; the task is then suspended in the final edits.
ExitLoop(r, flags) ==
    LET stopped == DictGet(flags, r.session_id)
        status == IF stopped THEN "stopped" ELSE "complete"
    IN  [r EXCEPT !.pc = "final_edit",
                  !.was_stopped = stopped,
                  !.observed = @ \/ stopped,
                  !.finals = Append(@, Snapshot(r, status))]

\* Mutant of LoopHead: the flag is not checked at the head of the iteration.
LoopHeadNoCheck(r, flags) ==
    IF r.i >= r.total
    THEN [r EXCEPT !.pc = "final_edit",
                   !.was_stopped = DictGet(flags, r.session_id),
                   !.observed = @ \/ DictGet(flags, r.session_id),
                   !.finals = Append(@, Snapshot(r,
                       IF DictGet(flags, r.session_id) THEN "stopped"
                       ELSE "complete"))]
    ELSE [r EXCEPT !.pc = "create_dm", !.retries = 0]

\* Lines 107-115: the head of the iteration for index r.i (0-based); the
\* task is then suspended in member.create_dm().
LoopHead(r, flags) ==
    IF r.i >= r.total THEN ExitLoop(r, flags)
    ELSE IF DictGet(flags, r.session_id)
         THEN ExitLoop([r EXCEPT !.observed = TRUE], flags)
         ELSE [r EXCEPT !.pc = "create_dm", !.retries = 0]

\* Mutant of Delay: line 159 tests the position only, not the flag.
DelayIgnoresFlag(r, flags) ==
    IF r.i < r.total - 1
    THEN [r EXCEPT !.pc = "delay", !.delays = @ + 1]
    ELSE LoopHead([r EXCEPT !.i = @ + 1,
                            !.observed = @ \/ (r.i < r.total - 1)], flags)

\* Lines 158-160, then the next iteration.
Delay(r, flags) ==
    IF r.i < r.total - 1 /\ ~DictGet(flags, r.session_id)
    THEN [r EXCEPT !.pc = "delay", !.delays = @ + 1]
    ELSE LoopHead([r EXCEPT !.i = @ + 1,
                            !.observed = @ \/ (r.i < r.total - 1)], flags)

\* Line 154: cmd_progress_msg.edit is issued.
EditCmd(r) == [r EXCEPT !.pc = "edit", !.cmd_edits = @ + 1]

\* Lines 148-153: on the cadence the edits are issued, progress_msg.edit
\* first when the log channel gave a progress message (lines 96-98).
ProgressEdit(r, flags, lc) ==
    IF (r.i + 1) % EDIT_EVERY = 0 \/ (r.i + 1) = r.total
    THEN IF lc THEN [r EXCEPT !.pc = "edit_log", !.log_edits = @ + 1]
         ELSE EditCmd(r)
    ELSE Delay(r, flags)

\* Lines 144-146.
LogLine(r, flags, lc) ==
    IF lc /\ (r.i + 1) % LOG_EVERY = 0
    THEN [r EXCEPT !.pc = "log_line"]
    ELSE ProgressEdit(r, flags, lc)

\* Mutant of RateLimited: the rate-limit answer is itself counted as a
\* failure before the retry is made.
RateLimitedCountsFailure(r, lc) ==
    IF lc THEN [r EXCEPT !.pc = "rl_notice", !.failed = @ + 1]
    ELSE [r EXCEPT !.pc = "rl_sleep", !.failed = @ + 1]

\* Lines 123-128: the 429 branch up to its first await.
RateLimited(r, lc) ==
    IF lc THEN [r EXCEPT !.pc = "rl_notice"] ELSE [r EXCEPT !.pc = "rl_sleep"]

\* Mutant of FirstAttempt: except discord.HTTPException stands before
\* except discord.Forbidden (a subclass), so Forbidden counts as failed.
FirstAttemptForbiddenAsHttp(r, resp, flags, lc) ==
    CASE resp = "ok" ->
            IF r.pc = "create_dm"
            THEN [r EXCEPT !.pc = "send", !.dm_channel = r.members[r.i + 1]]
            ELSE LogLine(CountSent(r), flags, lc)
      [] resp = "rate_limited" -> RateLimited(r, lc)
      [] OTHER -> LogLine(CountFailed(r), flags, lc)

\* Lines 114-142: what the try statement does with the answer to the call
\* the task is suspended in (create_dm when pc = "create_dm", the first
\* dm_channel.send when pc = "send").
FirstAttempt(r, resp, flags, lc) ==
    CASE resp = "ok" ->
            IF r.pc = "create_dm"
            THEN [r EXCEPT !.pc = "send", !.dm_channel = r.members[r.i + 1]]
            ELSE LogLine(CountSent(r), flags, lc)
      [] resp = "forbidden" -> LogLine(CountDmClosed(r), flags, lc)
      [] resp = "rate_limited" -> RateLimited(r, lc)
      [] OTHER -> LogLine(CountFailed(r), flags, lc)

\* Lines 129-131: after the backoff sleep the retry is dm_channel.send.  With
\* dm_channel unbound the name lookup raises UnboundLocalError inside the
\* inner try, which its except Exception folds into failed.
RetryOnce(r, flags, lc) ==
    IF r.dm_channel = NoChannel
    THEN LogLine(CountFailed(r), flags, lc)
    ELSE [r EXCEPT !.pc = "retry", !.retries = @ + 1]

\* Mutant of RetryResult: a rate-limit answer to the retry backs off and
\* retries again.
RetryResultAgain(r, resp, flags, lc) ==
    IF resp = "ok" THEN LogLine(CountSent(r), flags, lc)
    ELSE IF resp = "rate_limited" THEN RateLimited(r, lc)
    ELSE LogLine(CountFailed(r), flags, lc)

\* Lines 130-136: the answer to the retry.
RetryResult(r, resp, flags, lc) ==
    IF resp = "ok"
    THEN LogLine(CountSent(r), flags, lc)
    ELSE LogLine(CountFailed(r), flags, lc)

\* An exception that leaves send_mass_dm: the task ends where it stands.
Crash(r) == [r EXCEPT !.pc = "crashed", !.crashed_in = r.pc]

\* Outcome of a recipient as the platform's answers define it (history);
\* a recipient that is neither sent nor dm_closed counts as failed.
Note(r, outcome) ==
    CASE outcome = "sent" -> [r EXCEPT !.hSent = @ + 1]
      [] outcome = "dm_closed" -> [r EXCEPT !.hClosed = @ + 1]
      [] OTHER -> r

\* Claim-side reading of a platform answer: the outcome it gives the
\* recipient, or "none" while the recipient is still being processed.
OutcomeOfFirst(pc, resp) ==
    CASE resp = "ok" -> IF pc = "send" THEN "sent" ELSE "none"
      [] resp = "forbidden" -> "dm_closed"
      [] resp = "rate_limited" -> "none"
      [] OTHER -> "failed"

OutcomeOfRetry(resp) == IF resp = "ok" THEN "sent" ELSE "failed"

\* The call (pc) that was answered resp is the rate-limited call of the
\* current recipient (history).
NoteLimited(r, pc, resp) ==
    [r EXCEPT !.rl_call = IF resp = "rate_limited" THEN pc ELSE "none"]

\* ------------------------------------------------------------------ actions
SetTask(t, r) == task' = [task EXCEPT ![t] = r]

\* The environment gives answer a; an answer other than "ok" is a fault.
Answer(a) ==
    IF a = "ok" THEN UNCHANGED faults_left
    ELSE /\ faults_left # 0
         /\ faults_left' = IF faults_left > 0 THEN faults_left - 1 ELSE faults_left

Config == <<guild, guild_found, log_channel, slots>>

\* MessageModal.on_submit creates the task; send_mass_dm runs to its first
\* await (line 78) with the guild found.
on_submit(t) ==
    /\ t \in slots
    /\ task[t].pc = "idle"
    /\ guild_found
    /\ \E u \in Users, m \in Modes, rs \in (SUBSET Roles) \ {{}} :
         /\ stop_flags' = DictSet(stop_flags, u, FALSE)
         /\ SetTask(t, [task[t] EXCEPT
                          !.pc = "fetching", !.session_id = u, !.mode = m,
                          !.role_ids = IF m = "roles" THEN rs ELSE {},
                          !.registered = TRUE])
    /\ UNCHANGED <<faults_left, Config, stopping>>

\* Lines 69-72: the guild is not found; the task reports it and returns
\* without registering a session.
GuildMissing(t) ==
    /\ t \in slots
    /\ task[t].pc = "idle"
    /\ ~guild_found
    /\ SetTask(t, [task[t] EXCEPT !.pc = "done"])
    /\ UNCHANGED <<stop_flags, faults_left, Config, stopping>>

\* Lines 78-101: resumed from the "Fetching server members" message.
Fetched(t) ==
    /\ task[t].pc = "fetching"
    /\ \E sr \in SinkResp :
         /\ Answer(sr)
         /\ LET r == task[t]
                ms == ResolveMembers(guild, r.mode, r.role_ids)
                r1 == [r EXCEPT !.members = ms, !.total = Len(ms)]
            IN  SetTask(t, IF sr = "fail" THEN Crash(r)
                           ELSE IF Len(ms) = 0 THEN [r1 EXCEPT !.pc = "no_members"]
                           ELSE IF log_channel THEN [r1 EXCEPT !.pc = "init_post"]
                           ELSE [r1 EXCEPT !.pc = "init_cmd"])
    /\ UNCHANGED <<stop_flags, Config, stopping>>

\* Lines 87-88: resumed from the "No members found" message; return.
NoMembers(t) ==
    /\ task[t].pc = "no_members"
    /\ \E sr \in SinkResp :
         /\ Answer(sr)
         /\ SetTask(t, IF sr = "fail" THEN Crash(task[t])
                    ELSE [task[t] EXCEPT !.pc = "done"])
    /\ UNCHANGED <<stop_flags, Config, stopping>>

\* Line 98: resumed from the initial post in the log channel.
InitialPost(t) ==
    /\ task[t].pc = "init_post"
    /\ \E sr \in SinkResp :
         /\ Answer(sr)
         /\ SetTask(t, IF sr = "fail" THEN Crash(task[t])
                    ELSE [task[t] EXCEPT !.pc = "init_cmd"])
    /\ UNCHANGED <<stop_flags, Config, stopping>>

\* Lines 101-115: resumed from the initial post in the command channel; the
\* counters are set and the loop is entered.
InitialCmd(t) ==
    /\ task[t].pc = "init_cmd"
    /\ \E sr \in SinkResp :
         /\ Answer(sr)
         /\ SetTask(t, IF sr = "fail" THEN Crash(task[t])
                    ELSE LoopHead([task[t] EXCEPT !.sent = 0, !.failed = 0,
                                                  !.dm_closed = 0, !.i = 0],
                                  stop_flags))
    /\ UNCHANGED <<stop_flags, Config, stopping>>

\* Line 115: member.create_dm() answers.
CreateDm(t) ==
    /\ task[t].pc = "create_dm"
    /\ \E resp \in Resp :
         /\ Answer(resp)
         /\ SetTask(t, NoteLimited(
                         Note(FirstAttempt(task[t], resp, stop_flags, log_channel),
                              OutcomeOfFirst("create_dm", resp)),
                         "create_dm", resp))
    /\ UNCHANGED <<stop_flags, Config, stopping>>

\* Line 116: dm_channel.send(final_message) answers.
SendMessage(t) ==
    /\ task[t].pc = "send"
    /\ \E resp \in Resp :
         /\ Answer(resp)
         /\ SetTask(t, NoteLimited(
                         Note(FirstAttempt(task[t], resp, stop_flags, log_channel),
                              OutcomeOfFirst("send", resp)),
                         "send", resp))
    /\ UNCHANGED <<stop_flags, Config, stopping>>

\* Line 127: resumed from the rate-limit notice in the log channel.  The
\* call stands in an except clause, so its exception leaves the function.
RateLimitNotice(t) ==
    /\ task[t].pc = "rl_notice"
    /\ \E sr \in SinkResp :
         /\ Answer(sr)
         /\ SetTask(t, IF sr = "fail" THEN Crash(task[t])
                    ELSE [task[t] EXCEPT !.pc = "rl_sleep"])
    /\ UNCHANGED <<stop_flags, Config, stopping>>

\* Lines 128-131: the backoff sleep ends and the retry is issued.
Backoff(t) ==
    /\ task[t].pc = "rl_sleep"
    /\ LET r == RetryOnce(task[t], stop_flags, log_channel)
       IN  SetTask(t, IF r.pc = "retry" THEN r ELSE NoteLimited(r, "none", "ok"))
    /\ UNCHANGED <<stop_flags, faults_left, Config, stopping>>

\* Lines 131-136: the retry answers.
Retry(t) ==
    /\ task[t].pc = "retry"
    /\ \E resp \in Resp :
         /\ Answer(resp)
         /\ SetTask(t, NoteLimited(
                         Note(RetryResult(task[t], resp, stop_flags, log_channel),
                              OutcomeOfRetry(resp)),
                         "none", "ok"))
    /\ UNCHANGED <<stop_flags, Config, stopping>>

\* Line 146: resumed from the per-recipient log line.
LogStatus(t) ==
    /\ task[t].pc = "log_line"
    /\ \E sr \in SinkResp :
         /\ Answer(sr)
         /\ SetTask(t, IF sr = "fail" THEN Crash(task[t])
                    ELSE ProgressEdit(task[t], stop_flags, log_channel))
    /\ UNCHANGED <<stop_flags, Config, stopping>>

\* Lines 153-160: resumed from progress_msg.edit; its exception is caught at
\* line 155, which skips cmd_progress_msg.edit of line 154.
EditLog(t) ==
    /\ task[t].pc = "edit_log"
    /\ \E sr \in SinkResp :
         /\ Answer(sr)
         /\ SetTask(t, IF sr = "fail" THEN Delay(task[t], stop_flags)
                    ELSE EditCmd(task[t]))
    /\ UNCHANGED <<stop_flags, Config, stopping>>

\* Lines 154-160: resumed from cmd_progress_msg.edit, whose exception is
\* caught.
EditProgress(t) ==
    /\ task[t].pc = "edit"
    /\ \E sr \in SinkResp :
         /\ Answer(sr)
         /\ SetTask(t, Delay(task[t], stop_flags))
    /\ UNCHANGED <<stop_flags, Config, stopping>>

\* Line 160: the delay ends; next iteration.
DelayDone(t) ==
    /\ task[t].pc = "delay"
    /\ SetTask(t, LoopHead([task[t] EXCEPT !.i = @ + 1], stop_flags))
    /\ UNCHANGED <<stop_flags, faults_left, Config, stopping>>

\* Line 182 and return.
Finish(r) == [r EXCEPT !.pc = "done"]

\* Lines 168-182: resumed from the final edits, whose exceptions are caught.
FinalEdit(t) ==
    /\ task[t].pc = "final_edit"
    /\ \E sr \in SinkResp :
         /\ Answer(sr)
         /\ IF log_channel
            THEN /\ SetTask(t, [task[t] EXCEPT !.pc = "summary"])
                 /\ UNCHANGED stop_flags
            ELSE /\ SetTask(t, Finish(task[t]))
                 /\ stop_flags' = DictPop(stop_flags, task[t].session_id)
    /\ UNCHANGED <<Config, stopping>>

\* Lines 180-182: resumed from the summary line in the log channel.
Summary(t) ==
    /\ task[t].pc = "summary"
    /\ \E sr \in SinkResp :
         /\ Answer(sr)
         /\ IF sr = "fail"
            THEN /\ SetTask(t, Crash(task[t]))
                 /\ UNCHANGED stop_flags
            ELSE /\ SetTask(t, Finish(task[t]))
                 /\ stop_flags' = DictPop(stop_flags, task[t].session_id)
    /\ UNCHANGED <<Config, stopping>>

EndedPcs == {"done", "crashed"}

\* Task t has registered its session (line 75) and has not left send_mass_dm.
Live(t) == task[t].registered /\ task[t].pc \notin EndedPcs

\* The message stop_button answers user u with (lines 316-320).
StopReply(flags, u) ==
    IF u \in DOMAIN flags THEN "stopping" ELSE "no_session"

\* MainMenuView.stop_button pressed by user u (lines 313-320).
stop_button(u) ==
    /\ IF StopReply(stop_flags, u) = "stopping"
       THEN stop_flags' = DictSet(stop_flags, u, TRUE)
       ELSE UNCHANGED stop_flags
    /\ stopping' = stopping \cup {t \in Tasks : Live(t) /\ task[t].session_id = u}
    /\ UNCHANGED <<task, faults_left, Config>>

Next ==
    \/ \E t \in Tasks : on_submit(t)
    \/ \E t \in Tasks : GuildMissing(t)
    \/ \E t \in Tasks : Fetched(t)
    \/ \E t \in Tasks : NoMembers(t)
    \/ \E t \in Tasks : InitialPost(t)
    \/ \E t \in Tasks : InitialCmd(t)
    \/ \E t \in Tasks : CreateDm(t)
    \/ \E t \in Tasks : SendMessage(t)
    \/ \E t \in Tasks : RateLimitNotice(t)
    \/ \E t \in Tasks : Backoff(t)
    \/ \E t \in Tasks : Retry(t)
    \/ \E t \in Tasks : LogStatus(t)
    \/ \E t \in Tasks : EditLog(t)
    \/ \E t \in Tasks : EditProgress(t)
    \/ \E t \in Tasks : DelayDone(t)
    \/ \E t \in Tasks : FinalEdit(t)
    \/ \E t \in Tasks : Summary(t)
    \/ \E u \in Users : stop_button(u)

\* ------------------------------------------------------------ specifications
InitCommon ==
    /\ stop_flags = EmptyDict
    /\ stopping = {}
    /\ guild_found \in BOOLEAN
    /\ log_channel \in BOOLEAN
    /\ task = [t \in Tasks |-> IdleTask]

\* One dispatch at a time, over guilds of up to LoopMembers human members.
InitLoop ==
    /\ InitCommon
    /\ slots = {1}
    /\ faults_left = -1
    /\ \E n \in 0..LoopMembers : guild = MakeGuild(n)

\* Several dispatches that may run interleaved, over a small guild.
Init ==
    /\ InitCommon
    /\ slots = Tasks
    /\ faults_left = SessFaults
    /\ guild = MakeGuild(SessMembers)

\* Recipient resolution alone, over every guild of up to MaxGuild members:
\* a dispatch is started and runs to the end of lines 79-85.
MemberKinds == [bot : BOOLEAN, roles : SUBSET Roles]

Guilds(n) == UNION {[1..k -> MemberKinds] : k \in 0..n}

InitResolve ==
    /\ stop_flags = EmptyDict
    /\ stopping = {}
    /\ guild_found = TRUE
    /\ log_channel = FALSE
    /\ task = [t \in Tasks |-> IdleTask]
    /\ slots = {1}
    /\ faults_left = 0
    /\ guild \in Guilds(MaxGuild)

NextResolve ==
    \/ \E t \in Tasks : on_submit(t)
    \/ \E t \in Tasks : Fetched(t)

Spec == Init /\ [][Next]_vars

SpecResolve == InitResolve /\ [][NextResolve]_vars

SpecLoop == InitLoop /\ [][Next]_vars

\* A resumption of task t from the await it is suspended in.
Resume(t) ==
    \/ Fetched(t) \/ NoMembers(t) \/ InitialPost(t) \/ InitialCmd(t)
    \/ CreateDm(t) \/ SendMessage(t) \/ RateLimitNotice(t) \/ Backoff(t)
    \/ Retry(t) \/ LogStatus(t) \/ EditLog(t) \/ EditProgress(t)
    \/ DelayDone(t) \/ FinalEdit(t) \/ Summary(t)

\* SpecLoop with a fair event loop and platform: every await of a task is
\* answered and the task resumed; with the unlimited fault budget of
\* InitLoop a resumption stays enabled until it is taken.
SpecLoopFair ==
    InitLoop /\ [][Next]_vars /\ \A t \in Tasks : WF_vars(Resume(t))

\* ------------------------------------------------------------------ claims
Sum(r) == r.sent + r.failed + r.dm_closed

\* pcs inside the try statement of the current recipient / after it
TryPcs == {"create_dm", "send", "rl_notice", "rl_sleep", "retry"}
PostPcs == {"log_line", "edit_log", "edit", "delay"}
CallPcs == {"create_dm", "send", "retry"}

\* The step issues a create_dm or send call of task t.
CallIssued(t) ==
    /\ task'[t].pc \in CallPcs
    /\ <<task'[t].pc, task'[t].i>> # <<task[t].pc, task[t].i>>

CountersOf(r) == <<r.sent, r.failed, r.dm_closed>>

C1_State(t) ==
    LET r == task[t]
    IN  /\ Sum(r) <= r.total
        /\ r.pc \in TryPcs => Sum(r) = r.i
        /\ r.pc \in PostPcs => Sum(r) = r.i + 1

C1_Step(t) ==
    LET a == task[t]
        b == task'[t]
    IN  \/ CountersOf(b) = CountersOf(a)
        \/ /\ a.pc \in {"create_dm", "send", "rl_sleep", "retry"}
           /\ b.i \in {a.i, a.i + 1}
           /\ \/ CountersOf(b) = <<a.sent + 1, a.failed, a.dm_closed>>
              \/ CountersOf(b) = <<a.sent, a.failed + 1, a.dm_closed>>
              \/ CountersOf(b) = <<a.sent, a.failed, a.dm_closed + 1>>

\* C1: in every reachable state sent + failed + dm_closed <= total, the sum
\* being the number of recipients processed so far; a step changes the
\* counters only by ending the processing of one recipient, and then adds
\* exactly one to exactly one of them.
C1_CountersBounded ==
    /\ [](\A t \in Tasks : C1_State(t))
    /\ [][\A t \in Tasks : C1_Step(t)]_vars

C1_Witness ==
    \E t \in Tasks :
        /\ task[t].pc = "done" /\ task[t].total = 3
        /\ task[t].sent = 1 /\ task[t].failed = 1 /\ task[t].dm_closed = 1

\* C2: every final snapshot emitted with status "complete" has
\* sent + failed + dm_closed = total.
C2_CompleteCountsAll ==
    \A t \in Tasks : \A k \in 1..Len(task[t].finals) :
        LET f == task[t].finals[k]
        IN  f.status = "complete" => f.sent + f.failed + f.dm_closed = f.total

C2_Witness ==
    \E t \in Tasks :
        /\ task[t].pc = "done" /\ Len(task[t].finals) = 1
        /\ task[t].finals[1].status = "complete"
        /\ task[t].finals[1].total = 3
        /\ task[t].finals[1].failed = 1 /\ task[t].finals[1].dm_closed = 1

\* C3: a create_dm call is issued only in a step that starts with the
\* session's flag not set, and once the loop has read the flag as set the
\* task issues no create_dm or send call and its counters stay as they are.
C3_NoSendAfterStopObserved ==
    [][\A t \in Tasks :
         /\ (CallIssued(t) /\ task'[t].pc = "create_dm")
                => ~DictGet(stop_flags, task[t].session_id)
         /\ task[t].observed
                => /\ ~CallIssued(t)
                   /\ CountersOf(task'[t]) = CountersOf(task[t])
                   /\ task'[t].observed]_vars

C3_Witness ==
    \E t \in Tasks :
        /\ task[t].pc = "done" /\ task[t].observed /\ task[t].was_stopped
        /\ task[t].i = 1 /\ task[t].total = 3 /\ Sum(task[t]) = 1

\* C4: at most one retry is issued per recipient, and the step that takes
\* the retry's answer ends the processing of the recipient: it counts it as
\* sent when the answer is ok and as failed otherwise, a second rate-limit
\* answer included.
C4_SingleRetry ==
    /\ [](\A t \in Tasks : task[t].retries <= 1)
    /\ [][\A t \in Tasks :
            (task[t].pc = "retry" /\ task'[t] # task[t])
                => /\ task'[t].pc \notin {"rl_notice", "rl_sleep", "retry"}
                   /\ \/ /\ task'[t].hSent = task[t].hSent + 1
                         /\ CountersOf(task'[t]) =
                              <<task[t].sent + 1, task[t].failed, task[t].dm_closed>>
                      \/ /\ task'[t].hSent = task[t].hSent
                         /\ CountersOf(task'[t]) =
                              <<task[t].sent, task[t].failed + 1, task[t].dm_closed>>]_vars

C4_Witness ==
    \E t \in Tasks :
        /\ task[t].pc = "delay" /\ task[t].i = 0 /\ task[t].retries = 1
        /\ task[t].failed = 1

\* C5: at most one dispatch is live per session identifier.
C5_OneLivePerId ==
    \A t1, t2 \in Tasks :
        (Live(t1) /\ Live(t2) /\ task[t1].session_id = task[t2].session_id)
            => t1 = t2

\* C6: once a dispatch that registered its session has returned (the claim
\* says the same of an exit by exception) and no other dispatch of that
\* identifier is live, the registry holds no entry for the identifier.
C6_EntryRemovedOnExit ==
    \A t \in Tasks :
        (/\ task[t].registered
         /\ task[t].pc = "done"
         /\ \A t2 \in Tasks : Live(t2) => task[t2].session_id # task[t].session_id)
            => task[t].session_id \notin DOMAIN stop_flags

\* C7: no failure of a post or an edit on a progress sink ends the dispatch.
C7_SinkFailureSwallowed ==
    \A t \in Tasks :
        task[t].crashed_in \notin
            {"init_post", "init_cmd", "rl_notice", "log_line", "summary"}

\* C8: a dispatch that registered its session and returned has emitted
\* exactly one final snapshot, with total = 0 when no recipient was resolved.
C8_OneFinalSummary ==
    \A t \in Tasks :
        (task[t].registered /\ task[t].pc = "done")
            => /\ Len(task[t].finals) = 1
               /\ task[t].finals[1].total = task[t].total

\* C9: when the run ends "complete", sent is the number of recipients whose
\* first send or single retry was answered ok, dm_closed the number whose
\* first attempt was answered Forbidden, and failed the number of all others.
C9_CountersMatchAnswers ==
    \A t \in Tasks :
        (task[t].pc \in {"final_edit", "summary", "done"} /\ ~task[t].was_stopped)
            => /\ task[t].sent = task[t].hSent
               /\ task[t].dm_closed = task[t].hClosed
               /\ task[t].failed = task[t].total - task[t].hSent - task[t].hClosed

C9_Witness ==
    \E t \in Tasks :
        /\ task[t].pc = "done" /\ ~task[t].was_stopped /\ task[t].total = 3
        /\ task[t].sent = 1 /\ task[t].dm_closed = 1 /\ task[t].failed = 1
        /\ task[t].retries = 1

EntryChanged(u) ==
    \/ (u \in DOMAIN stop_flags) # (u \in DOMAIN stop_flags')
    \/ /\ u \in DOMAIN stop_flags
       /\ u \in DOMAIN stop_flags'
       /\ stop_flags'[u] # stop_flags[u]

\* C10: a step of one dispatch changes no other dispatch's locals and no
\* registry entry but that of its own identifier; a step of no dispatch (a
\* stop request) changes at most one entry, which it sets and never removes.
C10_SessionsIndependent ==
    [][/\ \A t \in Tasks :
            task'[t] # task[t]
                => /\ \A t2 \in Tasks \ {t} : task'[t2] = task[t2]
                   /\ \A u \in Users \ {task'[t].session_id} : ~EntryChanged(u)
       /\ (task' = task)
            => /\ Cardinality({u \in Users : EntryChanged(u)}) <= 1
               /\ \A u \in Users :
                    EntryChanged(u) => /\ u \in DOMAIN stop_flags
                                       /\ u \in DOMAIN stop_flags'
                                       /\ stop_flags'[u]]_vars

C10_Witness ==
    \E t1, t2 \in Tasks :
        /\ task[t1].session_id # task[t2].session_id
        /\ task[t1].pc = "done" /\ task[t1].was_stopped /\ task[t1].i = 1
        /\ task[t2].pc = "delay" /\ task[t2].i = 1
        /\ task[t2].session_id \in DOMAIN stop_flags
        /\ ~stop_flags[task[t2].session_id]

\* C11: a stop request answers "stopping" exactly when a dispatch of the
\* requesting user's identifier is live at that moment.  stop_button can be
\* pressed in every state and its answer is a function of that state.
C11_StopReportsLiveSession ==
    \A u \in Users :
        (StopReply(stop_flags, u) = "stopping")
            <=> (\E t \in Tasks : Live(t) /\ task[t].session_id = u)

\* Member k of guild g is a recipient of a dispatch with this mode and
\* role filter.
Eligible(g, mode, role_ids, k) ==
    /\ ~g[k].bot
    /\ (mode = "roles" /\ role_ids # {}) => \E ro \in role_ids : ro \in g[k].roles

\* C12: the resolved recipient list holds exactly the members that are not
\* automated accounts and, under a role filter in roles mode, hold at least
\* one of the listed roles, each once and in the order of the member list.
C12_ResolvedRecipients ==
    \A t \in Tasks :
        task[t].pc \in {"no_members", "init_post", "init_cmd"}
            => LET ms == task[t].members
               IN  /\ task[t].total = Len(ms)
                   /\ \A a, b \in 1..Len(ms) : a < b => ms[a] < ms[b]
                   /\ {ms[a] : a \in 1..Len(ms)} =
                        {k \in 1..Len(guild) :
                            Eligible(guild, task[t].mode, task[t].role_ids, k)}

C12_Witness ==
    \E t \in Tasks :
        /\ task[t].pc = "init_cmd"
        /\ task[t].mode = "roles" /\ task[t].role_ids = {1, 2}
        /\ task[t].members = <<1, 3>>
        /\ Len(guild) = 3
        /\ guild[1].roles = {1} /\ guild[3].roles = {2}
        /\ guild[2].bot /\ guild[2].roles = {1, 2}

\* The platform call task t is suspended in: its kind and the member it is
\* made for (the member whose channel dm_channel is, for a send).
CallInFlight(t) ==
    LET r == task[t]
    IN  CASE r.pc = "create_dm" -> <<"create_dm", r.members[r.i + 1]>>
          [] r.pc \in {"send", "retry"} -> <<"send", r.dm_channel>>
          [] OTHER -> <<"none", NoChannel>>

\* C13: the retry made after a rate-limit answer is the call that was
\* rate-limited, made for the current recipient.
C13_RetrySameCall ==
    \A t \in Tasks :
        task[t].pc = "retry"
            => CallInFlight(t) =
                 <<task[t].rl_call, task[t].members[task[t].i + 1]>>

\* C14 (its safety half): once a stop request was made for a live dispatch,
\* the dispatch starts no further recipient, that is, issues no create_dm.
C14_NoRecipientAfterStop ==
    [][\A t \in Tasks :
         t \in stopping => ~(CallIssued(t) /\ task'[t].pc = "create_dm")]_vars

\* C15: whatever the create_dm, send or retry call of a recipient answers,
\* the dispatch leaves the recipient's try statement by counting the
\* recipient and never by an exception, and it leaves the loop only with
\* every recipient processed or the flag read as set.
C15_RecipientErrorsFolded ==
    \A t \in Tasks :
        /\ task[t].crashed_in \notin TryPcs
        /\ (task[t].pc \in {"final_edit", "summary", "done"} /\ task[t].total > 0)
                => (task[t].i = task[t].total \/ task[t].observed)

\* The step ends the iteration of task t for its current recipient: the
\* task goes to sleep in line 160 or passes on without sleeping.
IterationEnds(t) ==
    /\ task[t].pc \in TryPcs \cup {"log_line", "edit_log", "edit"}
    /\ \/ task'[t].pc = "delay"
       \/ task'[t].i # task[t].i

\* C16: the step that ends the iteration of a recipient puts the task to
\* sleep in line 160 exactly when the recipient is not the last of the list
\* and the session's flag is not set in that step; otherwise the loop is
\* left without a sleep.  Every recipient after the first is started by the
\* step that ends such a sleep, so the sleeps taken equal the index.
C16_DelayBetweenRecipients ==
    /\ [][\A t \in Tasks :
            /\ IterationEnds(t)
                 => IF /\ task[t].i < task[t].total - 1
                       /\ ~DictGet(stop_flags, task[t].session_id)
                    THEN /\ task'[t].pc = "delay"
                         /\ task'[t].i = task[t].i
                         /\ task'[t].delays = task[t].delays + 1
                    ELSE /\ task'[t].pc = "final_edit"
                         /\ task'[t].delays = task[t].delays
            /\ (task'[t].pc = "create_dm" /\ task'[t].i > 0 /\ task'[t] # task[t])
                 => /\ task[t].pc = "delay"
                    /\ task'[t].i = task[t].i + 1]_vars
    /\ [](\A t \in Tasks : task[t].pc \in TryPcs => task[t].delays = task[t].i)

\* The flag was set while recipient 1 of 3 was processed: no sleep was taken.
C16_Witness ==
    \E t \in Tasks :
        /\ task[t].pc = "final_edit" /\ task[t].total = 3
        /\ task[t].i = 1 /\ task[t].delays = 0 /\ task[t].was_stopped

\* The in-progress updates due after the first n recipients (line 149).
UpdatesDue(n, total) ==
    Cardinality({k \in 1..n : k % EDIT_EVERY = 0 \/ k = total})

\* Recipients of task t whose iteration has reached its end.
Processed(t) ==
    IF task[t].pc = "delay" THEN task[t].i + 1 ELSE task[t].i

\* C17: after the k-th recipient the interactive sink is given an
\* in-progress update exactly when k is a multiple of 5 or k = total, and
\* with a log channel the status post is edited on the same cadence.
C17_ProgressCadence ==
    \A t \in Tasks :
        task[t].pc \in TryPcs \cup {"delay", "final_edit", "summary", "done"}
            => /\ task[t].cmd_edits = UpdatesDue(Processed(t), task[t].total)
               /\ log_channel
                    => task[t].log_edits = UpdatesDue(Processed(t), task[t].total)

\* C18: under fairness every dispatch that entered the loop eventually
\* emits a terminal snapshot ("complete" or "stopped").
C18_EventuallyTerminal ==
    \A t \in Tasks : (task[t].pc = "create_dm") ~> (task[t].finals # <<>>)

\* C19: while task t waits for the answer of a send call (first attempt or
\* retry) made for its current recipient, the channel the call was made on
\* is that recipient's private channel.
C19_SendTargetsRecipient ==
    \A t \in Tasks :
        task[t].pc \in {"send", "retry"}
            => task[t].dm_channel = task[t].members[task[t].i + 1]

\* C20: while a dispatch is live the registry holds an entry for its
\* session identifier, and once a stop request was made for it the flag
\* stays set until its loop has read it.
C20_EntryHeldWhileLive ==
    \A t \in Tasks :
        Live(t)
            => /\ task[t].session_id \in DOMAIN stop_flags
               /\ (t \in stopping /\ ~task[t].observed
                   /\ task[t].pc \notin {"final_edit", "summary"})
                    => stop_flags[task[t].session_id]

====
